---- MODULE Spec2Model ----
(***************************************************************************)
(* Bit-exact model of the radix-2 DIT fixed-point FFT scripts:             *)
(*   scripts/fft_compute.py  codec, twiddles, butterfly, compute_fft_dit,  *)
(*                           bit reversal                                  *)
(*   scripts/fft_sim.py      compute_fft_fixed_paper_style                 *)
(*   scripts/fft_check.py    load_mem_file, compare_results                *)
(*   scripts/mem_init.py     gen_impulse                                   *)
(*                                                                         *)
(* Python floats are modelled on a fixed grid: a float value v is the      *)
(* integer v * FloatOne, FloatOne = 2 * SCALE, so that every Q1.15 value   *)
(* is exact and half-steps (rounding ties) exist.  A complex number and a  *)
(* Q1.15 pair are both 2-tuples <<re, im>>.  Python lists and numpy arrays *)
(* are functions over 0..N-1, so indices are the source's indices.         *)
(* A 32-bit word w is the pair <<w >> 16, w & 0xFFFF>> of its halves       *)
(* (the model's integers are 32-bit signed, a word is unsigned).           *)
(***************************************************************************)
EXTENDS Integers, Sequences, FiniteSets, TLC

VARIABLES
    \* codec round trips (word32_from_q15 / q15_from_word32)
    cval, cword, corig, ctrace, cline,
    \* compute_fft_dit / compute_fft_fixed_paper_style
    pc, variant, data, buf, twiddles, stage, g, j, nbfly, out, err,
    \* one stage executed in an arbitrary butterfly order
    sN, sstage, sbuf0, sbuf, stw, pending, order,
    \* bit_reverse_array applied once and twice
    rpc, rx, ry, rz,
    \* fft_check.py: load_mem_file + compare_results
    kpc, ref_file, dut_file, ref, dut, rep,
    \* twiddle_gen.py next to the table loop of gen_twiddles_q15
    tN, trompc, trom, tlines, ttab, tk,
    \* the butterfly arithmetic unit on arbitrary 16-bit operands
    aa, ab, aop, ares, awide,
    \* bit_reverse_mem: a mem file loaded, reordered and written
    mpc, in_mem, mx, mx_br, out_mem

codecVars == <<cval, cword, corig, ctrace, cline>>
fftVars   == <<pc, variant, data, buf, twiddles, stage, g, j, nbfly, out, err>>
schedVars == <<sN, sstage, sbuf0, sbuf, stw, pending, order>>
revVars   == <<rpc, rx, ry, rz>>
cmpVars   == <<kpc, ref_file, dut_file, ref, dut, rep>>
twVars    == <<tN, trompc, trom, tlines, ttab, tk>>
arithVars == <<aa, ab, aop, ares, awide>>
memVars   == <<mpc, in_mem, mx, mx_br, out_mem>>
vars      ==
    <<codecVars, fftVars, schedVars, revVars, cmpVars, twVars, arithVars,
      memVars>>

----------------------------------------------------------------------------
(* Q1.15 constants, fft_compute.py:30-33 *)
FRAC_BITS == 15
SCALE     == 2^FRAC_BITS
MIN_Q15   == -(2^15)
MAX_Q15   == (2^15) - 1

(* the float grid: 1.0 is FloatOne, one Q1.15 step is FloatOne \div SCALE *)
FloatOne  == 2 * SCALE
QStep     == FloatOne \div SCALE

(* bounds of the model *)
MaxLogN    == 3      \* transform lengths up to 2^MaxLogN
MaxLogNSch == 2      \* lengths for the permuted-order stage up to 2^MaxLogNSch
MaxCmpLen  == 3      \* mem files of up to MaxCmpLen lines in the comparator
MaxLogNTw  == 4      \* twiddle ROM lengths up to 2^MaxLogNTw
MaxLogNMem == 2      \* mem files of up to 2^MaxLogNMem lines in bit_reverse_mem

Pow2(n) == 2^n
Max2(a, b) == IF a >= b THEN a ELSE b
Min2(a, b) == IF a <= b THEN a ELSE b
AbsInt(x) == IF x < 0 THEN -x ELSE x
Len0(f) == Cardinality(DOMAIN f)          \* len() of a 0-based array
Empty0 == [i \in {} |-> 0]                \* the empty array

(* Python round() / np.round of the exact rational n/d, d > 0:             *)
(* round half to even.                                                     *)
RoundHalfEven(n, d) ==
    LET q == n \div d
        r2 == 2 * (n % d)
    IN  IF r2 < d THEN q
        ELSE IF r2 > d THEN q + 1
        ELSE IF q % 2 = 0 THEN q ELSE q + 1

(* int(round(x * SCALE)) of a float x on the grid: x * SCALE is the       *)
(* rational x / QStep                                                      *)
RoundScaled(x) == RoundHalfEven(x, QStep)

(* raw / SCALE as a float on the grid *)
DivScale(raw) == raw * QStep

----------------------------------------------------------------------------
(* Word codec                                                              *)

q15_from_word32_nosign(word) ==
    LET real_raw == word[1] % 65536
        imag_raw == word[2] % 65536
        real_s == IF real_raw > 32768 THEN real_raw - 65536 ELSE real_raw
        imag_s == IF imag_raw > 32768 THEN imag_raw - 65536 ELSE imag_raw
    IN  <<DivScale(real_s), DivScale(imag_s)>>

q15_from_word32(word) ==
    LET real_raw == word[1] % 65536
        imag_raw == word[2] % 65536
        real_s == IF real_raw >= 32768 THEN real_raw - 65536 ELSE real_raw
        imag_s == IF imag_raw >= 32768 THEN imag_raw - 65536 ELSE imag_raw
    IN  <<DivScale(real_s), DivScale(imag_s)>>

word32_from_q15_wrap(real_val, imag_val) ==
    LET r0 == RoundScaled(real_val)
        i0 == RoundScaled(imag_val)
    IN  <<r0 % 65536, i0 % 65536>>

word32_from_q15(real_val, imag_val) ==
    LET r0 == RoundScaled(real_val)
        i0 == RoundScaled(imag_val)
        r1 == Max2(MIN_Q15, Min2(MAX_Q15, r0))
        i1 == Max2(MIN_Q15, Min2(MAX_Q15, i0))
        r2 == IF r1 < 0 THEN 65536 + r1 ELSE r1
        i2 == IF i1 < 0 THEN 65536 + i1 ELSE i1
    IN  <<r2 % 65536, i2 % 65536>>

to_int16(x) ==
    LET m == x % 65536
    IN  IF m >= 32768 THEN m - 65536 ELSE m

(* mem_init.py to_q15: the 16-bit two's complement of a float *)
to_q15(x) ==
    LET v0 == RoundScaled(x)
        v1 == IF v0 < MIN_Q15 THEN MIN_Q15 ELSE v0
        v2 == IF v1 > MAX_Q15 THEN MAX_Q15 ELSE v1
        v3 == IF v2 < 0 THEN 65536 + v2 ELSE v2
    IN  v3 % 65536

(* the hex digits of n >= 0, most significant first, at least width of    *)
(* them: format(n, "0<width>X"), a digit being its value 0..15            *)
RECURSIVE HexDigits(_, _)
HexDigits(n, width) ==
    IF n < 16 /\ width <= 1 THEN <<n>>
    ELSE Append(HexDigits(n \div 16, width - 1), n % 16)

(* f"{word:08X}" of the word <<hi, lo>>: the low half is the last four    *)
(* digits, the high half the digits before them                           *)
HexLine(word) == HexDigits(word[1], 4) \o HexDigits(word[2], 4)

(* 16-bit integers the codec runs are started from: both ends of the       *)
(* range, the sign boundary and values in between                          *)
EdgeInts ==
    (MIN_Q15 .. MIN_Q15 + 3) \cup (-3 .. 3) \cup (MAX_Q15 - 3 .. MAX_Q15)
        \cup {-16384, -12345, -256, -255, 255, 256, 12345, 16384}

(* floats that are not Q1.15 values: ties, and values beyond the range *)
OffGrid ==
    {-FloatOne - 3, -FloatOne - 1, -FloatOne + 1, -3, -1, 1, 3, 5,
     FloatOne - 3, FloatOne - 1, FloatOne, FloatOne + 1, 2 * FloatOne}

CodecFloats == {DivScale(r) : r \in EdgeInts} \cup OffGrid
CodecWords  ==
    {<<r % 65536, i % 65536>> : r \in EdgeInts, i \in EdgeInts}

Representable(v) ==
    /\ v % QStep = 0
    /\ v \div QStep >= MIN_Q15
    /\ v \div QStep <= MAX_Q15

NoVal  == <<>>
NoWord == <<>>

LastOp(t) == IF t = <<>> THEN "none" ELSE t[Len(t)]

CodecIdle ==
    /\ cval = NoVal /\ cword = NoWord /\ corig = NoVal /\ ctrace = <<"off">>
    /\ cline = <<>>

CodecInit ==
    \/ \E re \in CodecFloats, im \in CodecFloats :
          /\ cval = <<re, im>> /\ cword = NoWord
          /\ corig = <<re, im>> /\ ctrace = <<>> /\ cline = <<>>
    \/ \E w \in CodecWords :
          /\ cval = NoVal /\ cword = w /\ corig = w /\ ctrace = <<>>
          /\ cline = <<>>

(* write side, write_mem_file lines 170-171:                              *)
(* word = word32_from_q15(c.real, c.imag); f.write(f"{word:08X}\n")       *)
CodecEncode ==
    /\ cval # NoVal
    /\ Len(ctrace) < 2
    /\ LastOp(ctrace) \in {"none", "dec"}
    /\ cword' = word32_from_q15(cval[1], cval[2])
    /\ cline' = HexLine(word32_from_q15(cval[1], cval[2]))
    /\ ctrace' = Append(ctrace, "enc")
    /\ UNCHANGED <<cval, corig>>

(* read side: data[idx] = q15_from_word32(w) *)
CodecDecode ==
    /\ cword # NoWord
    /\ Len(ctrace) < 2
    /\ LastOp(ctrace) \in {"none", "enc"}
    /\ cval' = q15_from_word32(cword)
    /\ ctrace' = Append(ctrace, "dec")
    /\ UNCHANGED <<cword, corig, cline>>

----------------------------------------------------------------------------
(* Integer helpers for Python's bit operations on unbounded ints           *)

(* a & b for a >= 0 and any b (two's complement: -1 is all ones) *)
RECURSIVE BitAnd(_, _)
BitAnd(a, b) ==
    IF a = 0 THEN 0
    ELSE ((a % 2) * (b % 2)) + 2 * BitAnd(a \div 2, b \div 2)

(* int(math.log2(n)) for n >= 1 *)
RECURSIVE ILog2(_)
ILog2(n) == IF n <= 1 THEN 0 ELSE 1 + ILog2(n \div 2)

(* the length test of compute_fft_dit and bit_reverse_indices:             *)
(* N & (N - 1) != 0                                                        *)
LengthCheckFails(N) == BitAnd(N, N - 1) # 0

IsPow2(N) == \E m \in 0..30 : N = 2^m

----------------------------------------------------------------------------
(* Twiddle generator                                                       *)

(* round(cos(2*pi*m/32) * 2^15) for m = 0..8, as math.cos and round()      *)
(* produce them in IEEE double arithmetic                                  *)
QuarterCos == <<32768, 32138, 30274, 27246, 23170, 18205, 12540, 6393, 0>>
TableN == 32

(* int(round(math.cos(-2.0 * math.pi * k / N) * SCALE)), 0 <= k < N/2,     *)
(* N a power of two, N <= TableN                                           *)
CosRound(N, k) ==
    LET m == k * (TableN \div N)
    IN  IF m <= 8 THEN QuarterCos[m + 1] ELSE -QuarterCos[(16 - m) + 1]

(* int(round(math.sin(-2.0 * math.pi * k / N) * SCALE)) *)
SinRound(N, k) ==
    LET m == k * (TableN \div N)
    IN  -QuarterCos[AbsInt(8 - m) + 1]

gen_twiddles_q15(N) ==
    LET half == N \div 2
    IN  [k \in 0..(half - 1) |->
            <<to_int16(CosRound(N, k)), to_int16(SinRound(N, k))>>]

----------------------------------------------------------------------------
(* Butterfly arithmetic unit                                               *)

c_add_q15_sat(a, b) ==
    <<Max2(MIN_Q15, Min2(MAX_Q15, a[1] + b[1])),
      Max2(MIN_Q15, Min2(MAX_Q15, a[2] + b[2]))>>

c_add_q15_nowrap(a, b) == <<a[1] + b[1], a[2] + b[2]>>

c_add_q15(a, b) == <<to_int16(a[1] + b[1]), to_int16(a[2] + b[2])>>

c_sub_q15_swapped(a, b) == <<to_int16(b[1] - a[1]), to_int16(b[2] - a[2])>>

c_sub_q15(a, b) == <<to_int16(a[1] - b[1]), to_int16(a[2] - b[2])>>

(* Python ints are unbounded; the sum of two 16x16 products can reach     *)
(* 2^31, one more than this model's integers hold.  A wide integer w is   *)
(* the pair <<w >> 15, w & 0x7FFF>>, i.e. w = q * 2^15 + r, 0 <= r < 2^15 *)
WideOf(p) == <<p \div 32768, p % 32768>>
WideAdd(x, y) ==
    <<x[1] + y[1] + ((x[2] + y[2]) \div 32768), (x[2] + y[2]) % 32768>>
WideSub(x, y) ==
    <<(x[1] - y[1]) + ((x[2] - y[2]) \div 32768), (x[2] - y[2]) % 32768>>
(* w >> FRAC_BITS, Python's arithmetic shift (floor division by 2^15) *)
WideShr15(w) == w[1]
(* to_int16(w) of a wide integer: its low 16 bits *)
WideLow16(w) == to_int16(((w[1] % 2) * 32768) + w[2])

MulWide_PlusReal(a, b) ==
    LET ar == a[1]
        ai == a[2]
        br == b[1]
        bi == b[2]
    IN  [ar_br |-> ar * br, ai_bi |-> ai * bi,
         ar_bi |-> ar * bi, ai_br |-> ai * br,
         pr_wide |-> WideAdd(WideOf(ar * br), WideOf(ai * bi)),
         pi_wide |-> WideAdd(WideOf(ar * bi), WideOf(ai * br))]

(* the intermediates of c_mul_q15, lines 131-141 *)
MulWide(a, b) ==
    LET ar == a[1]
        ai == a[2]
        br == b[1]
        bi == b[2]
    IN  [ar_br |-> ar * br, ai_bi |-> ai * bi,
         ar_bi |-> ar * bi, ai_br |-> ai * br,
         pr_wide |-> WideSub(WideOf(ar * br), WideOf(ai * bi)),
         pi_wide |-> WideAdd(WideOf(ar * bi), WideOf(ai * br))]

c_mul_q15_truncfirst(a, b) ==
    LET m == MulWide(a, b)
    IN  <<to_int16(WideLow16(m.pr_wide) \div 32768),
          to_int16(WideLow16(m.pi_wide) \div 32768)>>

c_mul_q15(a, b) ==
    LET m == MulWide(a, b)
        pr == WideShr15(m.pr_wide)
        pi == WideShr15(m.pi_wide)
    IN  <<to_int16(pr), to_int16(pi)>>

c_mul_q15_sim_conj(a, b) ==
    LET ar == a[1]
        ai == a[2]
        br == b[1]
        bi == b[2]
        pr_wide == WideAdd(WideOf(ar * br), WideOf(ai * bi))
        pi_wide == WideSub(WideOf(ai * br), WideOf(ar * bi))
    IN  <<to_int16(WideShr15(pr_wide)), to_int16(WideShr15(pi_wide))>>

(* fft_sim.py c_mul_q15, lines 155-180 *)
c_mul_q15_sim(a, b) ==
    LET ar == a[1]
        ai == a[2]
        br == b[1]
        bi == b[2]
        pr_wide == WideSub(WideOf(ar * br), WideOf(ai * bi))
        pi_wide == WideAdd(WideOf(ar * bi), WideOf(ai * br))
        pr == WideShr15(pr_wide)
        pi == WideShr15(pi_wide)
    IN  <<to_int16(pr), to_int16(pi)>>

----------------------------------------------------------------------------
(* Bit-reversal permutation                                                *)

(* the inner loop of bit_reverse_indices: nbits times                      *)
(*   r = (r << 1) | (b & 1); b >>= 1                                       *)
RECURSIVE RevLoop(_, _, _)
RevLoop(b, r, nbits) ==
    IF nbits = 0 THEN r
    ELSE RevLoop(b \div 2, (2 * r) + (b % 2), nbits - 1)

bit_reverse_indices_short(N) ==
    LET nbits == ILog2(N)
    IN  [i \in 0..(N - 1) |-> RevLoop(i, 0, Max2(nbits - 1, 0))]

(* defined for the lengths that pass its check and have a log2 (N >= 1) *)
bit_reverse_indices(N) ==
    LET nbits == ILog2(N)
    IN  [i \in 0..(N - 1) |-> RevLoop(i, 0, nbits)]

(* x[idx] with idx = bit_reverse_indices(N) *)
bit_reverse_array(x) ==
    LET N == Len0(x)
        idx == bit_reverse_indices(N)
    IN  [i \in 0..(N - 1) |-> x[idx[i]]]

----------------------------------------------------------------------------
(* Stage scheduler / address generator                                     *)

StageDesc_HalfGroups(N, s) ==
    LET stride == 2^s
        group_size == 2 * stride
    IN  [stride |-> stride, group_size |-> group_size,
         num_groups |-> N \div (2 * group_size),
         tw_step |-> N \div group_size]

(* the per-stage values of compute_fft_dit lines 208-211 *)
StageDesc(N, s) ==
    LET stride == 2^s
        group_size == 2 * stride
    IN  [stride |-> stride, group_size |-> group_size,
         num_groups |-> N \div group_size, tw_step |-> N \div group_size]

TwiddleExp_Double(N, s, jj) == jj * 2 * StageDesc(N, s).tw_step

(* the twiddle exponent of line 219: exp = j * tw_step *)
TwiddleExp(N, s, jj) == jj * StageDesc(N, s).tw_step

ButterflyIdx_BaseStride(N, s, gg, jj) ==
    LET d == StageDesc(N, s)
        base == gg * d.stride
        a == base + jj
        exp == TwiddleExp(N, s, jj)
    IN  [a |-> a, b |-> a + d.stride, idx |-> exp % (N \div 2)]

(* the slots and the twiddle index of butterfly (g, j), lines 214-221 *)
ButterflyIdx(N, s, gg, jj) ==
    LET d == StageDesc(N, s)
        base == gg * d.group_size
        a == base + jj
        exp == TwiddleExp(N, s, jj)
    IN  [a |-> a, b |-> a + d.stride, idx |-> exp % (N \div 2)]

(* one butterfly on the buffer, lines 222-232 *)
Butterfly(bf, tw, N, s, gg, jj) ==
    LET x == ButterflyIdx(N, s, gg, jj)
        W == tw[x.idx]
        A == bf[x.a]
        B == bf[x.b]
        T == c_mul_q15(B, W)
        Ap == c_add_q15(A, T)
        Bp == c_sub_q15(A, T)
        bf1 == [bf EXCEPT ![x.a] = Ap]
    IN  [bf1 EXCEPT ![x.b] = Bp]

(* one butterfly of compute_fft_fixed_paper_style, fft_sim.py lines       *)
(* 219-232: the same slots and twiddle index (lines 214-228 are the text  *)
(* of fft_compute.py 208-221), to_int16, c_add_q15 and c_sub_q15 of       *)
(* fft_sim.py (lines 46-51, 143-152) are statement for statement those of *)
(* fft_compute.py, the product is fft_sim.py's own c_mul_q15              *)
ButterflySim(bf, tw, N, s, gg, jj) ==
    LET x == ButterflyIdx(N, s, gg, jj)
        W == tw[x.idx]
        A == bf[x.a]
        B == bf[x.b]
        T == c_mul_q15_sim(B, W)
        Ap == c_add_q15(A, T)
        Bp == c_sub_q15(A, T)
        bf1 == [bf EXCEPT ![x.a] = Ap]
    IN  [bf1 EXCEPT ![x.b] = Bp]

(* the input conversion, lines 194-200 *)
ToQ15Buf(d) ==
    [n \in DOMAIN d |->
        LET r == Max2(MIN_Q15, Min2(MAX_Q15, RoundScaled(d[n][1])))
            i == Max2(MIN_Q15, Min2(MAX_Q15, RoundScaled(d[n][2])))
        IN  <<to_int16(r), to_int16(i)>>]

(* the output conversion, lines 235-237 *)
ToFloatBuf(bf) ==
    [n \in DOMAIN bf |-> <<DivScale(bf[n][1]), DivScale(bf[n][2])>>]

(* the three nested loops of lines 207-232 from their t-th iteration on:   *)
(* stage outer, g, then j, so iteration t is stage t div (N/2) and pair    *)
(* number t mod (N/2) of that stage; which is "dit" or "paper"             *)
RECURSIVE StagesFrom(_, _, _, _, _)
StagesFrom(which, bf, tw, N, t) ==
    LET half == N \div 2
    IN  IF t >= half * ILog2(N) THEN bf
        ELSE LET s == t \div half
                 u == t % half
                 d == StageDesc(N, s)
                 gg == u \div d.stride
                 jj == u % d.stride
             IN  StagesFrom(which,
                            IF which = "paper"
                            THEN ButterflySim(bf, tw, N, s, gg, jj)
                            ELSE Butterfly(bf, tw, N, s, gg, jj),
                            tw, N, t + 1)

(* compute_fft_dit on a buffer whose length is a power of two >= 1 *)
compute_fft_dit(d) ==
    LET N == Len0(d)
        bf == StagesFrom("dit", ToQ15Buf(d), gen_twiddles_q15(N), N, 0)
    IN  bit_reverse_array(ToFloatBuf(bf))

(* compute_fft_fixed_paper_style (fft_sim.py 183-245) on such a buffer *)
compute_fft_fixed_paper_style(d) ==
    LET N == Len0(d)
        bf == StagesFrom("paper", ToQ15Buf(d), gen_twiddles_q15(N), N, 0)
    IN  ToFloatBuf(bf)

----------------------------------------------------------------------------
(* Input buffers                                                           *)

One == FloatOne                       \* the float 1.0

(* mem_init.py gen_impulse: sig[0] = 1.0, others 0 (real samples) *)
gen_impulse(N) == [n \in 0..(N - 1) |-> IF n = 0 THEN One ELSE 0]

(* the complex buffer of a real signal *)
AsComplex(sig) == [n \in DOMAIN sig |-> <<sig[n], 0>>]

(* complex float samples: 0, 1.0, -j (word 00008000), -1.0 (word          *)
(* 80000000), 0x7FFF/2^15, and a value off the Q1.15 grid whose two       *)
(* components are rounding ties                                            *)
SampleVals ==
    {<<0, 0>>, <<One, 0>>, <<0, -One>>, <<-One, 0>>, <<One - QStep, 0>>,
     <<201, -8193>>}

(* buffers of length N with at most two non-zero samples *)
Buffers(N) ==
    {[n \in 0..(N - 1) |-> IF n = p1 THEN v1 ELSE IF n = p2 THEN v2
                           ELSE <<0, 0>>] :
        p1 \in 0..(N - 1), p2 \in 0..(N - 1),
        v1 \in SampleVals, v2 \in SampleVals}

Lengths == 0..(2^MaxLogN)

InputBuffers(N) ==
    IF N = 0 THEN {Empty0} ELSE Buffers(N) \cup {AsComplex(gen_impulse(N))}

----------------------------------------------------------------------------
(* compute_fft_dit (fft_compute.py) and compute_fft_fixed_paper_style      *)
(* (fft_sim.py) as one state machine: pc is the position in the function,  *)
(* variant says which of the two is running.                               *)

NoBuf == Empty0

FftIdle ==
    /\ pc = "off" /\ variant = "none" /\ data = NoBuf /\ buf = NoBuf
    /\ twiddles = NoBuf /\ stage = 0 /\ g = 0 /\ j = 0 /\ nbfly = 0
    /\ out = NoBuf /\ err = "none"

FftInit ==
    /\ pc = "call"
    /\ variant \in {"dit", "paper"}
    /\ \E N \in Lengths : data \in InputBuffers(N)
    /\ buf = NoBuf /\ twiddles = NoBuf
    /\ stage = 0 /\ g = 0 /\ j = 0 /\ nbfly = 0
    /\ out = NoBuf /\ err = "none"

(* lines 189-191: the power-of-two check raises *)
FftReject ==
    /\ pc = "call"
    /\ LengthCheckFails(Len0(data))
    /\ pc' = "raised"
    /\ err' = "FFT length must be a power of 2"
    /\ UNCHANGED <<variant, data, buf, twiddles, stage, g, j, nbfly, out>>

(* lines 193-205 for N = 0: the check passes, math.log2(0) raises *)
FftDomainError ==
    /\ pc = "call"
    /\ ~LengthCheckFails(Len0(data))
    /\ Len0(data) = 0
    /\ buf' = ToQ15Buf(data)
    /\ twiddles' = gen_twiddles_q15(0)
    /\ pc' = "raised"
    /\ err' = "math domain error"
    /\ UNCHANGED <<variant, data, stage, g, j, nbfly, out>>

(* lines 193-207: convert the input, build the table, enter the loops *)
FftSetup ==
    /\ pc = "call"
    /\ ~LengthCheckFails(Len0(data))
    /\ Len0(data) >= 1
    /\ buf' = ToQ15Buf(data)
    /\ twiddles' = gen_twiddles_q15(Len0(data))
    /\ pc' = IF ILog2(Len0(data)) = 0 THEN "convert" ELSE "loop"
    /\ stage' = 0 /\ g' = 0 /\ j' = 0
    /\ UNCHANGED <<variant, data, nbfly, out, err>>

(* lines 207-232: one iteration of the innermost loop, then the loop      *)
(* headers up to the next iteration or the loop exit                      *)
FftButterfly ==
    /\ pc = "loop"
    /\ LET N == Len0(data)
           d == StageDesc(N, stage)
           num_stages == ILog2(N)
       IN  /\ buf' = IF variant = "paper"
                      THEN ButterflySim(buf, twiddles, N, stage, g, j)
                      ELSE Butterfly(buf, twiddles, N, stage, g, j)
           /\ nbfly' = nbfly + 1
           /\ IF j + 1 < d.stride
              THEN /\ j' = j + 1
                   /\ UNCHANGED <<g, stage, pc>>
              ELSE IF g + 1 < d.num_groups
              THEN /\ j' = 0 /\ g' = g + 1
                   /\ UNCHANGED <<stage, pc>>
              ELSE IF stage + 1 < num_stages
              THEN /\ j' = 0 /\ g' = 0 /\ stage' = stage + 1
                   /\ UNCHANGED pc
              ELSE /\ pc' = "convert"
                   /\ UNCHANGED <<j, g, stage>>
    /\ UNCHANGED <<variant, data, twiddles, out, err>>

(* lines 234-241: back to float; compute_fft_dit reorders the result,     *)
(* compute_fft_fixed_paper_style (fft_sim.py:240-245) returns it as is    *)
FftReturn ==
    /\ pc = "convert"
    /\ out' = IF variant = "dit" THEN bit_reverse_array(ToFloatBuf(buf))
              ELSE ToFloatBuf(buf)
    /\ pc' = "done"
    /\ UNCHANGED <<variant, data, buf, twiddles, stage, g, j, nbfly, err>>

----------------------------------------------------------------------------
(* One stage with its butterflies executed in an arbitrary order           *)

(* the (g, j) pairs of stage s, lines 213 and 215 *)
StagePairs(N, s) ==
    LET d == StageDesc(N, s)
    IN  {<<gg, jj>> : gg \in 0..(d.num_groups - 1), jj \in 0..(d.stride - 1)}

(* the canonical nested loop of lines 213-232 from its t-th iteration on:  *)
(* g outer, j inner, so iteration t is (t div stride, t mod stride)        *)
RECURSIVE CanonFrom(_, _, _, _, _)
CanonFrom(bf, tw, N, s, t) ==
    LET d == StageDesc(N, s)
    IN  IF t >= d.num_groups * d.stride THEN bf
        ELSE CanonFrom(Butterfly(bf, tw, N, s, t \div d.stride, t % d.stride),
                       tw, N, s, t + 1)

StageCanonical(bf, tw, N, s) == CanonFrom(bf, tw, N, s, 0)

(* 16-bit pairs the permuted stage is started from *)
SchedVals == {<<32767, -32768>>, <<100, -4096>>}

SchedIdle ==
    /\ sN = 0 /\ sstage = 0 /\ sbuf0 = NoBuf /\ sbuf = NoBuf
    /\ stw = NoBuf /\ pending = {} /\ order = <<>>

SchedInit ==
    /\ \E m \in 1..MaxLogNSch :
          /\ sN = 2^m
          /\ sstage \in 0..(m - 1)
          /\ sbuf0 \in [0..((2^m) - 1) -> SchedVals]
    /\ sbuf = sbuf0
    /\ stw = gen_twiddles_q15(sN)
    /\ pending = StagePairs(sN, sstage)
    /\ order = <<>>

(* any butterfly of the stage that has not run yet runs, as a whole *)
SchedButterfly ==
    /\ \E p \in pending :
          /\ sbuf' = Butterfly(sbuf, stw, sN, sstage, p[1], p[2])
          /\ pending' = pending \ {p}
          /\ order' = Append(order, p)
    /\ UNCHANGED <<sN, sstage, sbuf0, stw>>

----------------------------------------------------------------------------
(* bit_reverse_array applied to a buffer, and to its own result            *)

Ramp(N) == [n \in 0..(N - 1) |-> <<n * QStep, -n * QStep>>]

RevInputs(N) == IF N = 0 THEN {Empty0} ELSE InputBuffers(N) \cup {Ramp(N)}

RevIdle == rpc = "off" /\ rx = NoBuf /\ ry = NoBuf /\ rz = NoBuf

RevInit ==
    /\ rpc = "start"
    /\ \E N \in Lengths : rx \in RevInputs(N)
    /\ ry = NoBuf /\ rz = NoBuf

(* bit_reverse_indices lines 248-249 *)
RevReject ==
    /\ rpc = "start"
    /\ LengthCheckFails(Len0(rx))
    /\ rpc' = "raised"
    /\ UNCHANGED <<rx, ry, rz>>

(* bit_reverse_indices line 250 for N = 0: math.log2(0) raises *)
RevDomainError ==
    /\ rpc = "start"
    /\ ~LengthCheckFails(Len0(rx))
    /\ Len0(rx) = 0
    /\ rpc' = "raised"
    /\ UNCHANGED <<rx, ry, rz>>

RevApply ==
    /\ rpc = "start"
    /\ ~LengthCheckFails(Len0(rx))
    /\ Len0(rx) >= 1
    /\ ry' = bit_reverse_array(rx)
    /\ rpc' = "once"
    /\ UNCHANGED <<rx, rz>>

RevApplyAgain ==
    /\ rpc = "once"
    /\ rz' = bit_reverse_array(ry)
    /\ rpc' = "twice"
    /\ UNCHANGED <<rx, ry>>

----------------------------------------------------------------------------
(* fft_check.py: load_mem_file and compare_results                         *)

(* floor(sqrt(n)) for 0 <= n < 2^30, bit by bit from 2^14 down *)
RECURSIVE ISqrtFrom(_, _, _)
ISqrtFrom(n, bit, acc) ==
    IF bit = 0 THEN acc
    ELSE IF (acc + bit) * (acc + bit) <= n
         THEN ISqrtFrom(n, bit \div 2, acc + bit)
         ELSE ISqrtFrom(n, bit \div 2, acc)

ISqrt(n) == ISqrtFrom(n, 2^14, 0)

(* np.abs of a complex float; the result is rounded to the float grid     *)
(* (exact whenever one component is zero)                                  *)
ComplexAbs(c) == ISqrt((c[1] * c[1]) + (c[2] * c[2]))

RECURSIVE SumTo(_, _)
SumTo(f, n) == IF n = 0 THEN 0 ELSE f[n - 1] + SumTo(f, n - 1)

RECURSIVE MaxTo(_, _)
MaxTo(f, n) == IF n = 1 THEN f[0] ELSE Max2(f[n - 1], MaxTo(f, n - 1))

(* EPILSON = 1e-6, fft_check.py:84, as 1 / EpsInv *)
EpsInv == 1000000

(* max_err > EPILSON for a float on the grid: e / FloatOne > 1 / EpsInv,   *)
(* and for an integer e that is e > floor(FloatOne / EpsInv)               *)
ExceedsEps(e) == e > (FloatOne \div EpsInv)

Blank == <<>>

(* a line of a mem file: blank, or a word: 00000000, 00010000 (real one    *)
(* step), F8000800 (real -2048 steps, imag 2048 steps)                     *)
CmpLines == {Blank, <<0, 0>>, <<1, 0>>, <<63488, 2048>>}

RECURSIVE MemFiles(_)
MemFiles(n) ==
    IF n = 0 THEN {<<>>}
    ELSE LET shorter == MemFiles(n - 1)
         IN  shorter \cup
             {Append(f, l) : f \in {h \in shorter : Len(h) = n - 1},
                             l \in CmpLines}

(* the non-blank lines of a file, in order: lines 57-63 *)
NonBlank(f) == SelectSeq(f, LAMBDA l : l # Blank)

(* load_mem_file, lines 55-68 *)
load_mem_file(f) ==
    LET words == NonBlank(f)
    IN  [i \in 0..(Len(words) - 1) |-> q15_from_word32(words[i + 1])]

(* x[:n] *)
Prefix(x, n) == [i \in 0..(Min2(n, Len0(x)) - 1) |-> x[i]]

NoRep == [warn |-> FALSE, n |-> -1, max_err |-> -1, mean_err |-> <<0, 0>>,
          rms_sq |-> <<0, 0>>, dumped |-> {}, verdict |-> "none"]

CmpIdle ==
    /\ kpc = "off" /\ ref_file = <<>> /\ dut_file = <<>>
    /\ ref = NoBuf /\ dut = NoBuf /\ rep = NoRep

CmpInit ==
    /\ kpc = "load"
    /\ ref_file \in MemFiles(MaxCmpLen)
    /\ dut_file \in MemFiles(MaxCmpLen)
    /\ ref = NoBuf /\ dut = NoBuf /\ rep = NoRep

(* main, lines 123-127 *)
CmpLoad ==
    /\ kpc = "load"
    /\ ref' = load_mem_file(ref_file)
    /\ dut' = load_mem_file(dut_file)
    /\ kpc' = "compare"
    /\ UNCHANGED <<ref_file, dut_file, rep>>

(* compare_results lines 72-76: ref and dut are the function's locals *)
CmpTruncate ==
    /\ kpc = "compare"
    /\ IF Len0(ref) # Len0(dut)
       THEN LET n == Min2(Len0(ref), Len0(dut))
            IN  /\ rep' = [rep EXCEPT !.warn = TRUE]
                /\ ref' = Prefix(ref, n)
                /\ dut' = Prefix(dut, n)
       ELSE UNCHANGED <<rep, ref, dut>>
    /\ kpc' = "metrics"
    /\ UNCHANGED <<ref_file, dut_file>>

Diff(x, y) == [i \in DOMAIN x |-> <<x[i][1] - y[i][1], x[i][2] - y[i][2]>>]

AbsErr(x, y) == [i \in DOMAIN x |-> ComplexAbs(Diff(x, y)[i])]

(* lines 78-83 on an empty array: np.max raises ValueError *)
CmpMetricsRaise ==
    /\ kpc = "metrics"
    /\ Len0(ref) = 0
    /\ kpc' = "raised"
    /\ UNCHANGED <<ref_file, dut_file, ref, dut, rep>>

(* lines 78-83: mean_err and the square of rms_err are the rationals       *)
(* <<numerator, denominator>>                                              *)
CmpMetrics ==
    /\ kpc = "metrics"
    /\ Len0(ref) > 0
    /\ LET n == Len0(ref)
           abs_err == AbsErr(ref, dut)
           sq == [i \in DOMAIN abs_err |-> abs_err[i] * abs_err[i]]
       IN  rep' = [rep EXCEPT !.n = n,
                              !.max_err = MaxTo(abs_err, n),
                              !.mean_err = <<SumTo(abs_err, n), n>>,
                              !.rms_sq = <<SumTo(sq, n), n>>]
    /\ kpc' = "report"
    /\ UNCHANGED <<ref_file, dut_file, ref, dut>>

(* lines 84-106: the report, the dump of the first 8 samples on a         *)
(* mismatch (dumped is the set of indices k printed)                       *)
CmpReport ==
    /\ kpc = "report"
    /\ IF ExceedsEps(rep.max_err)
       THEN rep' = [rep EXCEPT !.dumped = 0..(Min2(8, Len0(ref)) - 1),
                               !.verdict = "mismatch"]
       ELSE rep' = [rep EXCEPT !.verdict = "match"]
    /\ kpc' = "done"
    /\ UNCHANGED <<ref_file, dut_file, ref, dut>>

----------------------------------------------------------------------------
(* twiddle_gen.py: the twiddle ROM, generated and written while the       *)
(* table loop of gen_twiddles_q15 (fft_compute.py:99-108) runs for the    *)
(* same N                                                                  *)

to_int16_wrap_sat(x) ==
    LET c == IF x > 32767 THEN 32767 ELSE IF x < -32768 THEN -32768 ELSE x
    IN  (IF c < 0 THEN c + 65536 ELSE c) % 65536

(* twiddle_gen.py to_int16_wrap, on one element *)
to_int16_wrap(x) ==
    LET y == IF x < 0 THEN x + 65536 ELSE x
    IN  y % 65536

(* gen_twiddles_q_format(N, 15) past its length check: np.exp(-2j*pi*k/N) *)
(* scaled by 1 << 15 and rounded gives the integers of CosRound and       *)
(* SinRound; a word is <<Wr16, Wi16>>                                      *)
gen_twiddles_q_format(N) ==
    [k \in 0..((N \div 2) - 1) |->
        <<to_int16_wrap(CosRound(N, k)), to_int16_wrap(SinRound(N, k))>>]

TwIdle ==
    /\ tN = -1 /\ trompc = "off" /\ trom = NoBuf /\ tlines = <<>>
    /\ ttab = NoBuf /\ tk = 0

TwInit ==
    /\ tN \in 0..(2^MaxLogNTw)
    /\ trompc = "call" /\ trom = NoBuf /\ tlines = <<>>
    /\ ttab = NoBuf /\ tk = 0

(* gen_twiddles_q_format lines 22-23 *)
TwRomReject ==
    /\ trompc = "call"
    /\ LengthCheckFails(tN)
    /\ trompc' = "raised"
    /\ UNCHANGED <<tN, trom, tlines, ttab, tk>>

(* gen_twiddles_q_format lines 25-40, main line 81 *)
TwRomGen ==
    /\ trompc = "call"
    /\ ~LengthCheckFails(tN)
    /\ trom' = gen_twiddles_q_format(tN)
    /\ trompc' = IF tN \div 2 = 0 THEN "done" ELSE "write"
    /\ UNCHANGED <<tN, tlines, ttab, tk>>

(* twiddle_gen.py write_mem_file lines 48-49: one line of the ROM file *)
TwRomWriteLine ==
    /\ trompc = "write"
    /\ tlines' = Append(tlines, HexLine(trom[Len(tlines)]))
    /\ trompc' = IF Len(tlines) + 1 = Len0(trom) THEN "done" ELSE "write"
    /\ UNCHANGED <<tN, trom, ttab, tk>>

(* gen_twiddles_q15 lines 99-108: one iteration of the table loop; the    *)
(* function is only called with a length that passed the check            *)
TwTableStep ==
    /\ tN >= 0
    /\ ~LengthCheckFails(tN)
    /\ tk < tN \div 2
    /\ ttab' = [k \in 0..tk |->
                  IF k < tk THEN ttab[k]
                  ELSE <<to_int16(CosRound(tN, tk)), to_int16(SinRound(tN, tk))>>]
    /\ tk' = tk + 1
    /\ UNCHANGED <<tN, trompc, trom, tlines>>

----------------------------------------------------------------------------
(* The butterfly arithmetic unit applied to arbitrary 16-bit operands      *)

(* both ends of the 16-bit range, the sign boundary, values in between *)
ArithInts == {-32768, -32767, -1, 0, 1, 2, 12345, 23170, 32767}
ArithPairs == {<<r, i>> : r \in ArithInts, i \in ArithInts}

NoWideRec == [none |-> TRUE]

ArithIdle ==
    /\ aa = <<>> /\ ab = <<>> /\ aop = "off" /\ ares = <<>>
    /\ awide = NoWideRec

ArithInit ==
    /\ aa \in ArithPairs /\ ab \in ArithPairs
    /\ aop = "none" /\ ares = <<>> /\ awide = NoWideRec

(* T = c_mul_q15(B, W), fft_compute.py *)
ArithMul ==
    /\ aop = "none"
    /\ aop' = "mul"
    /\ awide' = MulWide(aa, ab)
    /\ ares' = c_mul_q15(aa, ab)
    /\ UNCHANGED <<aa, ab>>

(* T = c_mul_q15(B, W), fft_sim.py *)
ArithMulSim ==
    /\ aop = "none"
    /\ aop' = "mul_sim"
    /\ ares' = c_mul_q15_sim(aa, ab)
    /\ UNCHANGED <<aa, ab, awide>>

ArithAdd ==
    /\ aop = "none"
    /\ aop' = "add"
    /\ ares' = c_add_q15(aa, ab)
    /\ UNCHANGED <<aa, ab, awide>>

ArithSub ==
    /\ aop = "none"
    /\ aop' = "sub"
    /\ ares' = c_sub_q15(aa, ab)
    /\ UNCHANGED <<aa, ab, awide>>

----------------------------------------------------------------------------
(* bit_reverse_mem (fft_compute.py 272-281): load_mem_file, then          *)
(* bit_reverse_array, then write_mem_file.  A line of a mem file is the   *)
(* sequence of its hex digits, a digit being its value 0..15.             *)

(* int(s, 16) of a digit sequence *)
RECURSIVE HexValue(_)
HexValue(ds) ==
    IF ds = <<>> THEN 0
    ELSE (16 * HexValue(SubSeq(ds, 1, Len(ds) - 1))) + ds[Len(ds)]

(* parse_hex_line, lines 39-45, on a line of eight digits: the word       *)
(* <<high half, low half>>                                                 *)
parse_hex_line(line) ==
    <<HexValue(SubSeq(line, 1, Len(line) - 4)),
      HexValue(SubSeq(line, Len(line) - 3, Len(line)))>>

(* load_mem_file of fft_compute.py, lines 148-161: blank lines are        *)
(* skipped, every other line is parsed and unpacked                        *)
load_mem_file_fc(f) ==
    LET lines == SelectSeq(f, LAMBDA l : l # <<>>)
    IN  [i \in 0..(Len(lines) - 1) |->
            q15_from_word32(parse_hex_line(lines[i + 1]))]

(* the words of the lines of a file: zero, the two ends of the 16-bit     *)
(* range in either half, the sign boundary, all ones, mixed digits        *)
MemWords ==
    {<<0, 0>>, <<32768, 0>>, <<0, 32768>>, <<32767, 32768>>,
     <<32768, 32767>>, <<65535, 65535>>, <<1, 65535>>, <<65535, 1>>,
     <<4660, 43981>>, <<63488, 2048>>}

(* files of N eight-digit lines of which at most two are not 00000000 *)
MemInputs(N) ==
    {[i \in 1..N |-> HexLine(IF i = p1 THEN w1 ELSE IF i = p2 THEN w2
                             ELSE <<0, 0>>)] :
        p1 \in 1..N, p2 \in 1..N, w1 \in MemWords, w2 \in MemWords}

MemIdle ==
    /\ mpc = "off" /\ in_mem = <<>> /\ mx = NoBuf /\ mx_br = NoBuf
    /\ out_mem = <<>>

MemInit ==
    /\ mpc = "call"
    /\ \E N \in 0..(2^MaxLogNMem) :
          in_mem \in (IF N = 0 THEN {<<>>} ELSE MemInputs(N))
    /\ mx = NoBuf /\ mx_br = NoBuf /\ out_mem = <<>>

(* line 278: x = load_mem_file(in_mem) *)
MemLoad ==
    /\ mpc = "call"
    /\ mx' = load_mem_file_fc(in_mem)
    /\ mpc' = "reverse"
    /\ UNCHANGED <<in_mem, mx_br, out_mem>>

(* line 279, bit_reverse_indices lines 248-249: the length check raises *)
MemReject ==
    /\ mpc = "reverse"
    /\ LengthCheckFails(Len0(mx))
    /\ mpc' = "raised"
    /\ UNCHANGED <<in_mem, mx, mx_br, out_mem>>

(* line 279, bit_reverse_indices line 250 for N = 0: math.log2(0) raises *)
MemDomainError ==
    /\ mpc = "reverse"
    /\ ~LengthCheckFails(Len0(mx))
    /\ Len0(mx) = 0
    /\ mpc' = "raised"
    /\ UNCHANGED <<in_mem, mx, mx_br, out_mem>>

(* line 279: x_br = bit_reverse_array(x) *)
MemReverse ==
    /\ mpc = "reverse"
    /\ ~LengthCheckFails(Len0(mx))
    /\ Len0(mx) >= 1
    /\ mx_br' = bit_reverse_array(mx)
    /\ mpc' = "write"
    /\ UNCHANGED <<in_mem, mx, out_mem>>

(* line 280, write_mem_file lines 168-171: one line of the output file *)
MemWriteLine ==
    /\ mpc = "write"
    /\ LET c == mx_br[Len(out_mem)]
           word == word32_from_q15(c[1], c[2])
       IN  out_mem' = Append(out_mem, HexLine(word))
    /\ mpc' = IF Len(out_mem) + 1 = Len0(mx_br) THEN "done" ELSE "write"
    /\ UNCHANGED <<in_mem, mx, mx_br>>

----------------------------------------------------------------------------
(* Specifications                                                          *)

(* the transform *)
Init == FftInit /\ CodecIdle /\ SchedIdle /\ RevIdle /\ CmpIdle /\ TwIdle /\ ArithIdle /\ MemIdle

Next ==
    \/ (FftReject /\ UNCHANGED <<codecVars, schedVars, revVars, cmpVars, twVars, arithVars, memVars>>)
    \/ (FftDomainError /\ UNCHANGED <<codecVars, schedVars, revVars, cmpVars, twVars, arithVars, memVars>>)
    \/ (FftSetup /\ UNCHANGED <<codecVars, schedVars, revVars, cmpVars, twVars, arithVars, memVars>>)
    \/ (FftButterfly /\ UNCHANGED <<codecVars, schedVars, revVars, cmpVars, twVars, arithVars, memVars>>)
    \/ (FftReturn /\ UNCHANGED <<codecVars, schedVars, revVars, cmpVars, twVars, arithVars, memVars>>)

Spec == Init /\ [][Next]_vars

(* the transform run to its end.  The loop bounds of lines 205-215 depend *)
(* on N only, so one impulse and one ramp per length are the inputs; the  *)
(* interpreter executes the function's next statement as long as there is *)
(* one, which is weak fairness of Next.                                    *)
SeqInit ==
    /\ pc = "call"
    /\ variant \in {"dit", "paper"}
    /\ \E N \in Lengths :
          data \in (IF N = 0 THEN {Empty0}
                    ELSE {AsComplex(gen_impulse(N)), Ramp(N)})
    /\ buf = NoBuf /\ twiddles = NoBuf
    /\ stage = 0 /\ g = 0 /\ j = 0 /\ nbfly = 0
    /\ out = NoBuf /\ err = "none"

InitSeq ==
    SeqInit /\ CodecIdle /\ SchedIdle /\ RevIdle /\ CmpIdle /\ TwIdle
        /\ ArithIdle /\ MemIdle

FairSpec == InitSeq /\ [][Next]_vars /\ WF_vars(Next)

(* the word codec *)
InitCodec ==
    CodecInit /\ FftIdle /\ SchedIdle /\ RevIdle /\ CmpIdle /\ TwIdle /\ ArithIdle /\ MemIdle

NextCodec ==
    \/ (CodecEncode /\ UNCHANGED <<fftVars, schedVars, revVars, cmpVars, twVars, arithVars, memVars>>)
    \/ (CodecDecode /\ UNCHANGED <<fftVars, schedVars, revVars, cmpVars, twVars, arithVars, memVars>>)

SpecCodec == InitCodec /\ [][NextCodec]_vars

(* one stage in an arbitrary butterfly order *)
InitSched ==
    SchedInit /\ CodecIdle /\ FftIdle /\ RevIdle /\ CmpIdle /\ TwIdle /\ ArithIdle /\ MemIdle

NextSched ==
    SchedButterfly
        /\ UNCHANGED <<codecVars, fftVars, revVars, cmpVars, twVars, arithVars,
                       memVars>>

SpecSched == InitSched /\ [][NextSched]_vars

(* the bit-reversal permutation *)
InitRev ==
    RevInit /\ CodecIdle /\ FftIdle /\ SchedIdle /\ CmpIdle /\ TwIdle /\ ArithIdle /\ MemIdle

NextRev ==
    \/ (RevReject /\ UNCHANGED <<codecVars, fftVars, schedVars, cmpVars, twVars, arithVars, memVars>>)
    \/ (RevDomainError /\ UNCHANGED <<codecVars, fftVars, schedVars, cmpVars, twVars, arithVars, memVars>>)
    \/ (RevApply /\ UNCHANGED <<codecVars, fftVars, schedVars, cmpVars, twVars, arithVars, memVars>>)
    \/ (RevApplyAgain /\ UNCHANGED <<codecVars, fftVars, schedVars, cmpVars, twVars, arithVars, memVars>>)

SpecRev == InitRev /\ [][NextRev]_vars

(* the comparator *)
InitCmp ==
    CmpInit /\ CodecIdle /\ FftIdle /\ SchedIdle /\ RevIdle /\ TwIdle /\ ArithIdle /\ MemIdle

NextCmp ==
    \/ (CmpLoad /\ UNCHANGED <<codecVars, fftVars, schedVars, revVars, twVars, arithVars, memVars>>)
    \/ (CmpTruncate /\ UNCHANGED <<codecVars, fftVars, schedVars, revVars, twVars, arithVars, memVars>>)
    \/ (CmpMetricsRaise /\ UNCHANGED <<codecVars, fftVars, schedVars, revVars, twVars, arithVars, memVars>>)
    \/ (CmpMetrics /\ UNCHANGED <<codecVars, fftVars, schedVars, revVars, twVars, arithVars, memVars>>)
    \/ (CmpReport /\ UNCHANGED <<codecVars, fftVars, schedVars, revVars, twVars, arithVars, memVars>>)

SpecCmp == InitCmp /\ [][NextCmp]_vars

(* the twiddle ROM and the twiddle table *)
InitTw == TwInit /\ CodecIdle /\ FftIdle /\ SchedIdle /\ RevIdle /\ CmpIdle /\ ArithIdle /\ MemIdle

NextTw ==
    \/ (TwRomReject /\ UNCHANGED <<codecVars, fftVars, schedVars, revVars, cmpVars, arithVars, memVars>>)
    \/ (TwRomGen /\ UNCHANGED <<codecVars, fftVars, schedVars, revVars, cmpVars, arithVars, memVars>>)
    \/ (TwRomWriteLine /\ UNCHANGED <<codecVars, fftVars, schedVars, revVars, cmpVars, arithVars, memVars>>)
    \/ (TwTableStep /\ UNCHANGED <<codecVars, fftVars, schedVars, revVars, cmpVars, arithVars, memVars>>)

SpecTw == InitTw /\ [][NextTw]_vars

(* the arithmetic unit *)
InitArith ==
    ArithInit /\ CodecIdle /\ FftIdle /\ SchedIdle /\ RevIdle /\ CmpIdle
        /\ TwIdle /\ MemIdle

otherThanArith ==
    <<codecVars, fftVars, schedVars, revVars, cmpVars, twVars, memVars>>

NextArith ==
    \/ (ArithMul /\ UNCHANGED otherThanArith)
    \/ (ArithMulSim /\ UNCHANGED otherThanArith)
    \/ (ArithAdd /\ UNCHANGED otherThanArith)
    \/ (ArithSub /\ UNCHANGED otherThanArith)

SpecArith == InitArith /\ [][NextArith]_vars

(* bit_reverse_mem *)
InitMem ==
    MemInit /\ CodecIdle /\ FftIdle /\ SchedIdle /\ RevIdle /\ CmpIdle
        /\ TwIdle /\ ArithIdle

otherThanMem ==
    <<codecVars, fftVars, schedVars, revVars, cmpVars, twVars, arithVars>>

NextMem ==
    \/ (MemLoad /\ UNCHANGED otherThanMem)
    \/ (MemReject /\ UNCHANGED otherThanMem)
    \/ (MemDomainError /\ UNCHANGED otherThanMem)
    \/ (MemReverse /\ UNCHANGED otherThanMem)
    \/ (MemWriteLine /\ UNCHANGED otherThanMem)

SpecMem == InitMem /\ [][NextMem]_vars

----------------------------------------------------------------------------
(* Properties                                                              *)

WithinStep(x, y) == AbsInt(x[1] - y[1]) <= QStep /\ AbsInt(x[2] - y[2]) <= QStep

\* C1: codec round trip: for every pair of Q1.15 values (r/2^15, i/2^15),
\* r and i in [-32768, 32767], decoding the word that word32_from_q15
\* produces returns exactly that pair.
C1_RoundTrip ==
    (/\ ctrace = <<"enc", "dec">>
     /\ Representable(corig[1]) /\ Representable(corig[2]))
        => cval = corig

C1_Witness ==
    /\ ctrace = <<"enc", "dec">>
    /\ corig = <<DivScale(MIN_Q15), DivScale(MAX_Q15)>>
    /\ cword = <<32768, 32767>>
    /\ cval = corig

\* C2: bit reversal is an involution and a bijection: for a power-of-two
\* N, bit_reverse_indices(N) is a permutation of 0..N-1 with
\* rev[rev[i]] = i, bit_reverse_array gives output[i] = input[rev[i]], and
\* applying bit_reverse_array twice returns the original buffer.
C2_Involution ==
    /\ rpc \in {"once", "twice"} =>
          LET N == Len0(rx)
              rev == bit_reverse_indices(N)
          IN  /\ {rev[i] : i \in 0..(N - 1)} = 0..(N - 1)
              /\ \A i \in 0..(N - 1) : rev[rev[i]] = i
              /\ \A i \in 0..(N - 1) : ry[i] = rx[rev[i]]
    /\ rpc = "twice" => rz = rx

C2_Witness ==
    /\ rpc = "twice"
    /\ rx = Ramp(8)
    /\ ry[1] = rx[4] /\ ry[3] = rx[6]
    /\ rz = rx

\* C3: scheduler independence: the butterflies of one stage executed in
\* any order leave the buffer that the canonical nested loop (g outer,
\* j inner) leaves.
C3_SchedIndependence ==
    (sN > 0 /\ pending = {})
        => sbuf = StageCanonical(sbuf0, stw, sN, sstage)

C3_Witness ==
    /\ sN = 4 /\ sstage = 1 /\ pending = {}
    /\ order = <<<<0, 1>>, <<0, 0>>>>
    /\ sbuf # sbuf0
    /\ sbuf0[0] # sbuf0[1]

(* the four words 00000000, 00008000, 00000000, 00000000 as loaded *)
ExampleInput ==
    [n \in 0..3 |-> q15_from_word32(IF n = 1 THEN <<0, 32768>> ELSE <<0, 0>>)]

(* [-1, j, 1, -j] *)
ExampleExpected ==
    [k \in 0..3 |-> IF k = 0 THEN <<-One, 0>> ELSE IF k = 1 THEN <<0, One>>
                    ELSE IF k = 2 THEN <<One, 0>> ELSE <<0, -One>>]

\* C4: end-to-end N=4 example: the words 00000000, 00008000, 00000000,
\* 00000000 transformed by compute_fft_dit give bins matching
\* [-1, j, 1, -j] within one quantization step per component.
C4_Example ==
    (pc = "done" /\ variant = "dit" /\ data = ExampleInput)
        => \A k \in 0..3 : WithinStep(out[k], ExampleExpected[k])

(* z * (-j)^p *)
MulNegJPow(z, p) ==
    IF p % 4 = 0 THEN z
    ELSE IF p % 4 = 1 THEN <<z[2], -z[1]>>
    ELSE IF p % 4 = 2 THEN <<-z[1], -z[2]>>
    ELSE <<-z[2], z[1]>>

RECURSIVE DftSum(_, _, _, _)
DftSum(x, N, k, n) ==
    IF n = 0 THEN <<0, 0>>
    ELSE LET t == MulNegJPow(x[n - 1], (n - 1) * k * (4 \div N))
             r == DftSum(x, N, k, n - 1)
         IN  <<t[1] + r[1], t[2] + r[2]>>

(* the exact unnormalised DFT of an integer buffer for N in {1, 2, 4},     *)
(* where W_N^m = (-j)^(m * 4 / N)                                          *)
ExactDFT(x, N) == [k \in 0..(N - 1) |-> DftSum(x, N, k, N)]

FitsInt16(X) ==
    \A k \in DOMAIN X :
        /\ X[k][1] >= MIN_Q15 /\ X[k][1] <= MAX_Q15
        /\ X[k][2] >= MIN_Q15 /\ X[k][2] <= MAX_Q15

\* C5: natural-order DFT result: for N = 2 and N = 4 and an input whose
\* exact transform stays in the 16-bit range, bin k returned by
\* compute_fft_dit is the unnormalised DFT bin X[k] of the natural-order
\* input within one quantization step per component.
C5_NaturalDFT ==
    (/\ pc = "done" /\ variant = "dit"
     /\ Len0(data) \in {2, 4}
     /\ FitsInt16(ExactDFT(ToQ15Buf(data), Len0(data))))
        => \A k \in DOMAIN out :
              WithinStep(out[k],
                  ToFloatBuf(ExactDFT(ToQ15Buf(data), Len0(data)))[k])

\* C6: twiddle entry 0 approximates (1, 0): for N >= 2 the first entry of
\* gen_twiddles_q15(N) has real part 2^15 - 1 or 2^15 and imaginary part 0.
C6_TwiddleZero ==
    (pc \in {"loop", "convert", "done"} /\ Len0(data) >= 2)
        => /\ twiddles[0][1] \in {(2^15) - 1, 2^15}
           /\ twiddles[0][2] = 0

\* C7: impulse response is flat: transforming the buffer whose sample 0 is
\* (1.0, 0) and whose other samples are (0, 0) gives bins that are equal
\* to each other within 2^-15 per component.
C7_ImpulseFlat ==
    (/\ pc = "done" /\ variant = "dit"
     /\ data = AsComplex(gen_impulse(Len0(data))))
        => \A k1 \in DOMAIN out : \A k2 \in DOMAIN out :
              WithinStep(out[k1], out[k2])

C7_Witness ==
    /\ pc = "done" /\ variant = "dit"
    /\ data = AsComplex(gen_impulse(8))
    /\ nbfly = 12
    /\ out[5] = <<DivScale(MAX_Q15), 0>>

\* C8: invalid length is fatal: for every length N >= 0 that is not a
\* power of two, both transforms raise the invalid-length error from their
\* power-of-two check, execute no butterfly and return no result.
C8_InvalidLength ==
    (pc # "call" /\ ~IsPow2(Len0(data)))
        => /\ pc = "raised"
           /\ err = "FFT length must be a power of 2"
           /\ nbfly = 0
           /\ out = NoBuf

\* C9: comparator length mismatch is recoverable: for ref and dut of
\* different lengths m and n, compare_results warns, truncates both to
\* min(m, n), computes the metrics over those elements and does not raise.
C9_LengthMismatch ==
    LET m == Len(NonBlank(ref_file))
        n == Len(NonBlank(dut_file))
    IN  (m # n /\ kpc \in {"metrics", "report", "done", "raised"})
            => /\ rep.warn
               /\ Len0(ref) = Min2(m, n) /\ Len0(dut) = Min2(m, n)
               /\ kpc # "raised"
               /\ kpc \in {"report", "done"} => rep.n = Min2(m, n)

\* C10: comparator determinism: for every x that load_mem_file can return,
\* compare_results(x, x) computes max, mean and RMS error of exactly 0,
\* reports a match and prints no sample dump.
C10_SelfCompare ==
    (load_mem_file(ref_file) = load_mem_file(dut_file))
        => /\ kpc # "raised"
           /\ kpc = "done" =>
                 /\ rep.max_err = 0
                 /\ rep.mean_err[1] = 0
                 /\ rep.rms_sq[1] = 0
                 /\ rep.verdict = "match"
                 /\ rep.dumped = {}

(* clamp(v, -32768, 32767) and the 16-bit two's complement code of v *)
Clamp16(v) == IF v < -32768 THEN -32768 ELSE IF v > 32767 THEN 32767 ELSE v
TwosComp16(v) == IF v < 0 THEN v + 65536 ELSE v

\* C11: encode saturates at the file boundary: word32_from_q15 gives a
\* word in [0, 2^32) whose upper half is the two's complement code of
\* clamp(round(real * 2^15), -32768, 32767) and whose lower half is the
\* same for imag; a scaled value >= 32768 encodes as 0x7FFF and one
\* <= -32768 as 0x8000, and the word prints as exactly 8 hex digits.
C11_EncodeSaturates ==
    LastOp(ctrace) = "enc" =>
        LET r == RoundScaled(cval[1])
            i == RoundScaled(cval[2])
        IN  /\ cword[1] \in 0..65535 /\ cword[2] \in 0..65535
            /\ cword[1] = TwosComp16(Clamp16(r))
            /\ cword[2] = TwosComp16(Clamp16(i))
            /\ r >= 32768 => cword[1] = 32767
            /\ r <= -32768 => cword[1] = 32768
            /\ i >= 32768 => cword[2] = 32767
            /\ i <= -32768 => cword[2] = 32768
            /\ cword[1] = to_q15(cval[1]) /\ cword[2] = to_q15(cval[2])
            /\ Len(cline) = 8

C11_Witness ==
    /\ ctrace = <<"enc">>
    /\ cval = <<2 * FloatOne, -FloatOne - 3>>
    /\ cword = <<32767, 32768>>
    /\ cline = <<7, 15, 15, 15, 8, 0, 0, 0>>

\* C12: twiddle ROM contents: for a power-of-two N and frac_bits = 15,
\* gen_twiddles_q_format returns exactly N/2 words, and word k is the
\* packing (real two's complement in the upper half, imag in the lower
\* half) of entry k of the table gen_twiddles_q15(N).
C12_TwiddleRom ==
    (IsPow2(tN) /\ trompc \in {"write", "done"})
        => /\ Len0(trom) = tN \div 2
           /\ \A k \in DOMAIN ttab :
                 trom[k] = <<TwosComp16(ttab[k][1]), TwosComp16(ttab[k][2])>>
           /\ tk = tN \div 2 => ttab = gen_twiddles_q15(tN)

C12_Witness ==
    /\ tN = 16 /\ trompc = "done" /\ tk = 8
    /\ Len(tlines) = 8
    /\ ttab[0] = <<-32768, 0>> /\ trom[0] = <<32768, 0>>
    /\ ttab[5] = <<-12540, -30274>> /\ trom[5] = <<52996, 35262>>

\* C19: twiddle generation never overflows: for a power-of-two N >= 2 and
\* every k in 0..N/2-1 the rounded scaled cosine and sine lie in
\* [-32768, 32767] before wrapping, so to_int16 leaves them unchanged.
C19_NoTwiddleOverflow ==
    (tN >= 2 /\ IsPow2(tN))
        => \A k \in DOMAIN ttab :
              /\ CosRound(tN, k) >= MIN_Q15 /\ CosRound(tN, k) <= MAX_Q15
              /\ SinRound(tN, k) >= MIN_Q15 /\ SinRound(tN, k) <= MAX_Q15
              /\ ttab[k] = <<CosRound(tN, k), SinRound(tN, k)>>

(* signed 32-bit range of a native product and of a wide integer *)
FitsWide32(w) == w[1] >= -65536 /\ w[1] <= 65535
FitsProd32(p) == FitsWide32(WideOf(p))

AllMin(a, b) ==
    a[1] = -32768 /\ a[2] = -32768 /\ b[1] = -32768 /\ b[2] = -32768

\* C13 as stated: intermediate products fit in 32 bits: for all 16-bit
\* operands each of the four cross products and each of the two wide sums
\* ar*br - ai*bi and ar*bi + ai*br lies in [-2^31, 2^31 - 1].
C13_Original ==
    aop = "mul" =>
        /\ FitsProd32(awide.ar_br) /\ FitsProd32(awide.ai_bi)
        /\ FitsProd32(awide.ar_bi) /\ FitsProd32(awide.ai_br)
        /\ FitsWide32(awide.pr_wide)
        /\ FitsWide32(awide.pi_wide)

\* C13 amended: the four cross products and the sum ar*br - ai*bi always
\* lie in [-2^31, 2^31 - 1]; the sum ar*bi + ai*br does too except for
\* ar = ai = br = bi = -32768, where it is exactly 2^31.
C13_Amended ==
    aop = "mul" =>
        /\ FitsProd32(awide.ar_br) /\ FitsProd32(awide.ai_bi)
        /\ FitsProd32(awide.ar_bi) /\ FitsProd32(awide.ai_br)
        /\ FitsWide32(awide.pr_wide)
        /\ IF AllMin(aa, ab) THEN awide.pi_wide = <<65536, 0>>
           ELSE FitsWide32(awide.pi_wide)

C13_Witness ==
    /\ aop = "mul"
    /\ aa = <<-32768, -32768>> /\ ab = <<-32768, 32767>>
    /\ awide.ar_br = 2^30
    /\ awide.pr_wide = <<65535, 0>>
    /\ awide.pi_wide = <<1, 0>>

(* wrap16 as the specification defines it *)
Wrap16(x) ==
    LET m == x % 65536
    IN  IF m >= 32768 THEN m - 65536 ELSE m

(* floor((p + q) / 2^15) for two products of magnitude at most 2^30 *)
FloorShiftSum(p, q) ==
    IF p = 2^30 /\ q = 2^30 THEN 65536 ELSE (p + q) \div (2^15)

\* C14: complex multiply semantics: c_mul_q15(a, b), in fft_compute.py and
\* in fft_sim.py, is (wrap16(floor((ar*br - ai*bi) / 2^15)),
\* wrap16(floor((ar*bi + ai*br) / 2^15))): a floor division of the
\* full-width sum, then a wrap, no saturation.
C14_MulSemantics ==
    aop \in {"mul", "mul_sim"} =>
        ares = <<Wrap16(FloorShiftSum(aa[1] * ab[1], -(aa[2] * ab[2]))),
                 Wrap16(FloorShiftSum(aa[1] * ab[2], aa[2] * ab[1]))>>

C14_Witness ==
    /\ aop = "mul"
    /\ aa = <<-1, 1>> /\ ab = <<1, 12345>>
    /\ ares = <<-1, -1>>

\* C15: add and subtract wrap and never saturate: each component of
\* c_add_q15(a, b) and c_sub_q15(a, b) lies in [-32768, 32767] and is
\* congruent modulo 2^16 to the exact sum (difference); 32767 + 1 gives
\* -32768.
C15_AddSubWrap ==
    /\ aop \in {"add", "sub"} =>
          \A c \in 1..2 :
              LET exact == IF aop = "add" THEN aa[c] + ab[c]
                           ELSE aa[c] - ab[c]
              IN  /\ ares[c] >= -32768 /\ ares[c] <= 32767
                  /\ (ares[c] - exact) % 65536 = 0
    /\ (aop = "add" /\ aa[1] = 32767 /\ ab[1] = 1) => ares[1] = -32768

C15_Witness ==
    /\ aop = "add"
    /\ aa = <<32767, -32768>> /\ ab = <<1, -1>>
    /\ ares = <<-32768, 32767>>

Int16Pair(p) ==
    /\ p[1] \in Int /\ p[1] >= -32768 /\ p[1] <= 32767
    /\ p[2] \in Int /\ p[2] >= -32768 /\ p[2] <= 32767

\* C16: 16-bit buffer invariant: after the input conversion and after any
\* number of butterflies of any stage, every component of every buffer
\* slot is an integer in [-32768, 32767], the buffer has N slots, and the
\* twiddle table has N/2 entries and is the table that was generated.
C16_BufferInvariant ==
    pc \in {"loop", "convert", "done"} =>
        /\ \A n \in DOMAIN buf : Int16Pair(buf[n])
        /\ DOMAIN buf = 0..(Len0(data) - 1)
        /\ Len0(twiddles) = Len0(data) \div 2
        /\ twiddles = gen_twiddles_q15(Len0(data))

C16_Witness ==
    /\ pc = "loop" /\ nbfly = 1 /\ Len0(data) = 8
    /\ data[0] = <<One, 0>> /\ data[1] = <<One, 0>>
    /\ buf[0] = <<0, 0>> /\ buf[1] = <<-2, 0>>

(* the slots of all butterflies of stage s *)
StageSlots(N, s) ==
    {ButterflyIdx(N, s, p[1], p[2]) : p \in StagePairs(N, s)}

\* C17: no write conflicts within a stage: the pairs (a, b) of a stage are
\* pairwise disjoint and cover every index 0..N-1 exactly once, and a
\* butterfly reads and writes only its own slots a and b: every other
\* slot keeps its value, and the new values of a and b are computed from
\* the old values of a and b.
C17_NoWriteConflict ==
    [][pc = "loop" =>
         LET N == Len0(data)
             x == ButterflyIdx(N, stage, g, j)
             T == c_mul_q15(buf[x.b], twiddles[x.idx])
         IN  /\ Cardinality(StageSlots(N, stage)) = N \div 2
             /\ \A i \in 0..(N - 1) :
                   Cardinality({y \in StageSlots(N, stage) :
                                   y.a = i \/ y.b = i}) = 1
             /\ \A y \in StageSlots(N, stage) : y.a # y.b
             /\ DOMAIN buf' = DOMAIN buf
             /\ \A i \in DOMAIN buf : (i # x.a /\ i # x.b) => buf'[i] = buf[i]
             /\ buf'[x.a] = c_add_q15(buf[x.a], T)
             /\ buf'[x.b] = c_sub_q15(buf[x.a], T)]_vars

C17_Witness ==
    /\ pc = "loop" /\ Len0(data) = 8
    /\ nbfly = 7 /\ stage = 1 /\ g = 1 /\ j = 1
    /\ buf[4] # <<0, 0>>

\* C18: stage sequencing and termination: the stages run in increasing
\* order, each performs exactly N/2 butterflies before the next starts,
\* and the transform terminates after exactly (N/2) * log2(N) butterflies
\* (none for N = 1).
C18_StageSequencing ==
    /\ [](pc = "loop" =>
             LET half == Len0(data) \div 2
             IN  /\ stage < ILog2(Len0(data))
                 /\ stage = nbfly \div half
                 /\ (g * StageDesc(Len0(data), stage).stride) + j
                        = nbfly % half)
    /\ [](pc \in {"convert", "done"} =>
             nbfly = (Len0(data) \div 2) * ILog2(Len0(data)))
    /\ [][stage' = stage \/ stage' = stage + 1]_vars
    /\ [][pc = "loop" => nbfly' = nbfly + 1]_vars
    /\ (Len0(data) >= 1 /\ IsPow2(Len0(data))) ~> (pc = "done")

C18_Witness ==
    /\ pc = "done" /\ Len0(data) = 8 /\ nbfly = 12 /\ stage = 2
    /\ g = 0 /\ j = 3

\* C20: comparator tolerance report: compare_results never raises; it has
\* computed the max, the mean and the RMS error of the compared samples
\* before it tests the tolerance; it reports a mismatch exactly when the
\* max absolute error is strictly greater than 1e-6, then dumping the
\* indices 0..min(8, n)-1 and no others, and otherwise dumps nothing and
\* reports a match; the loaded sequences are left as they were.
C20_ToleranceReport ==
    /\ kpc # "raised"
    /\ kpc \in {"report", "done"} =>
          LET n == Len0(ref)
              abs_err == AbsErr(ref, dut)
              sq == [i \in DOMAIN abs_err |-> abs_err[i] * abs_err[i]]
          IN  /\ rep.n = n
              /\ rep.max_err = MaxTo(abs_err, n)
              /\ rep.mean_err = <<SumTo(abs_err, n), n>>
              /\ rep.rms_sq = <<SumTo(sq, n), n>>
              /\ ref = Prefix(load_mem_file(ref_file), n)
              /\ dut = Prefix(load_mem_file(dut_file), n)
    /\ kpc = "report" => rep.verdict = "none" /\ rep.dumped = {}
    /\ kpc = "done" =>
          /\ rep.verdict \in {"match", "mismatch"}
          /\ rep.verdict = "mismatch" <=> ExceedsEps(rep.max_err)
          /\ rep.verdict = "mismatch" =>
                rep.dumped = {i \in DOMAIN ref : i < 8}
          /\ rep.verdict = "match" => rep.dumped = {}

C22_TwiddleExpInRange ==
    pc = "loop" =>
        LET N == Len0(data)
            exp == TwiddleExp(N, stage, j)
            x == ButterflyIdx(N, stage, g, j)
        IN  /\ N >= 2
            /\ j < StageDesc(N, stage).stride
            /\ exp >= 0 /\ exp < N \div 2
            /\ x.idx = exp
            /\ x.idx \in DOMAIN twiddles
            /\ exp = j * (N \div (2^(stage + 1)))
            /\ stage = 0 => x.idx = 0
            /\ \A s \in 0..(ILog2(N) - 1) :
                  {ButterflyIdx(N, s, p[1], p[2]).idx : p \in StagePairs(N, s)}
                      = {jj * (N \div (2^(s + 1))) : jj \in 0..((2^s) - 1)}

C22_Witness ==
    /\ pc = "loop" /\ Len0(data) = 8 /\ stage = 2 /\ j = 3
    /\ ButterflyIdx(8, stage, g, j).idx = 3
    /\ twiddles[3] # <<0, 0>>

\* C23: file reordering is lossless: every word of the file is returned
\* unchanged by word32_from_q15 applied to the real and imaginary parts of
\* its q15_from_word32 value, and for every mem file of a power-of-two
\* number N of eight-digit lines bit_reverse_mem writes a file of N lines
\* whose line i is exactly the input line rev[i], rev being the
\* bit-reversal permutation; no word is altered by rounding or saturation.
C23_ReorderLossless ==
    LET N == Len(in_mem)
    IN  /\ (N >= 1 /\ IsPow2(N)) => mpc # "raised"
        /\ mpc \in {"reverse", "write", "done"} =>
              /\ Len0(mx) = N
              /\ \A i \in 0..(N - 1) :
                    word32_from_q15(mx[i][1], mx[i][2])
                        = parse_hex_line(in_mem[i + 1])
        /\ mpc = "write" => Len(out_mem) < N
        /\ mpc \in {"write", "done"} =>
              LET rev == bit_reverse_indices(N)
              IN  \A i \in 0..(Len(out_mem) - 1) :
                     out_mem[i + 1] = in_mem[rev[i] + 1]
        /\ mpc = "done" => Len(out_mem) = N

C23_Witness ==
    /\ mpc = "done" /\ Len(in_mem) = 4
    /\ in_mem[2] = HexLine(<<32768, 32767>>)
    /\ in_mem[4] = HexLine(<<4660, 43981>>)
    /\ out_mem[3] = in_mem[2]
    /\ out_mem # in_mem

====
